---- MODULE Spec2Model ----
(***************************************************************************)
(* The stress-test run loop of llm_stresstest.py: main(), the methods of   *)
(* LLMStressTest it calls, and the event loop's scheduling of the          *)
(* chat-completion requests.                                               *)
(*                                                                         *)
(* Units.  Python floats are modelled as scaled integers:                  *)
(*   raw elapsed time            hundredths of a millisecond               *)
(*   result["time"], runtime_*,  tenths of a millisecond (round(x, 1))     *)
(*   llm_load_time                                                         *)
(*   quality, quality_*          thousandths (round(x, 3))                 *)
(*   cold_start_factor           hundredths (round(x, 2))                  *)
(***************************************************************************)
EXTENDS Integers, Sequences, FiniteSets, TLC

VARIABLES
    pc,              \* position of main() / run_test()
    config,          \* self.config
    questions,       \* self.questions
    results,         \* self.results
    llm_load_time,   \* self.llm_load_time
    model_metadata,  \* self.model_metadata
    force_overwrite, \* self.force_overwrite
    warmup_result,   \* run_test's local warmup_result
    i,               \* offset of the current chunk / question in remaining_questions
    batch_results,   \* records of the current gather's tasks that have returned
    inflight,        \* requests started and not yet completed (indices into sent)
    sent,            \* log of the chat-completion requests started, in order
    timeout_found,   \* the loop was left through one of its two break statements
    output_data,     \* save_results' local output_data
    result_file,     \* results/<output_filename>.json on disk
    emergency_file,  \* emergency_results_<timestamp>.json on disk
    exit_code,       \* the process's exit status
    agg_calls        \* number of calculate_aggregates calls made on this object

vars == <<pc, config, questions, results, llm_load_time, model_metadata,
          force_overwrite, warmup_result, i, batch_results, inflight, sent,
          timeout_found, output_data, result_file, emergency_file, exit_code,
          agg_calls>>

-----------------------------------------------------------------------------
(* Bounds of the model *)

\* number of prompts in config/questions.json
MaxQuestions == 4
\* largest configured concurrency level
MaxConcurrent == 3
\* longest result list the aggregator is applied to in SpecAgg
MaxAggResults == 3
\* number of calculate_aggregates calls made on one object in SpecAgg
MaxAggCalls == 2
\* number of runs started in one working directory in SpecName
MaxRuns == 2

-----------------------------------------------------------------------------
(* Values *)

\* Python's None, for a string-valued slot
None == "None"
\* a dict key that was never set
NoKey == "NoKey"
\* the dict {}
EmptyDict == [k \in {} |-> 0]

\* mutant: the timeout answer is worded like any other error
TIMEOUT_ANSWER_Reworded == "ERROR: TimeoutError"

\* the answer send_question stores on asyncio.TimeoutError, and the string
\* run_test compares against
TIMEOUT_ANSWER == "ERROR: Request timed out."

Max(a, b) == IF a >= b THEN a ELSE b
Min(a, b) == IF a <= b THEN a ELSE b

\* round(a / b) for a >= 0, b > 0, ties to the even neighbour as Python's
\* round() does
RoundDiv(a, b) ==
    LET q == a \div b
        r == a % b
    IN  IF 2 * r < b THEN q
        ELSE IF 2 * r > b THEN q + 1
        ELSE IF q % 2 = 0 THEN q ELSE q + 1

\* round(a / b, ndigits) in Python: the division raises ZeroDivisionError for
\* b = 0 and nothing is returned
Div(a, b) ==
    IF b = 0 THEN [raised |-> TRUE, value |-> 0]
    ELSE [raised |-> FALSE, value |-> RoundDiv(a, b)]

\* an expression that cannot raise
Value(v) == [raised |-> FALSE, value |-> v]

StartsWith(s, p) == Len(s) >= Len(p) /\ SubSeq(s, 1, Len(p)) = p

RECURSIVE Sum(_)
Sum(xs) == IF xs = <<>> THEN 0 ELSE Head(xs) + Sum(Tail(xs))

RECURSIVE MinOf(_)
MinOf(xs) == IF Len(xs) = 1 THEN Head(xs) ELSE Min(Head(xs), MinOf(Tail(xs)))

RECURSIVE MaxOf(_)
MaxOf(xs) == IF Len(xs) = 1 THEN Head(xs) ELSE Max(Head(xs), MaxOf(Tail(xs)))

-----------------------------------------------------------------------------
(* The environment: files, the server, the evaluator *)

\* the 'fragen' list of config/questions.json
AllQuestions == [n \in 1..MaxQuestions |-> "q" \o ToString(n - 1)]

RequiredFields == {"questions", "concurrent", "url", "model", "timeout"}

ValidConfigs ==
    { [questions |-> n, concurrent |-> c, url |-> "http://host:11434",
       model |-> "m", timeout |-> 30] :
        n \in 0..MaxQuestions, c \in 1..MaxConcurrent }

\* a config.json that lacks one required field
IncompleteConfigs ==
    LET full == [questions |-> 1, concurrent |-> 1, url |-> "http://host:11434",
                 model |-> "m", timeout |-> 30]
    IN  { [f \in RequiredFields \ {missing} |-> full[f]] : missing \in RequiredFields }

\* what open() + json.load() of config/config.json can give
ConfigFiles ==
    { [error |-> "FileNotFoundError"], [error |-> "JSONDecodeError"] }
    \cup { [json |-> c] : c \in ValidConfigs \cup IncompleteConfigs }

\* what open() + json.load() of config/questions.json can give
QuestionFiles ==
    { [error |-> "FileNotFoundError"], [error |-> "JSONDecodeError"],
      [json |-> [fragen |-> AllQuestions]],
      [json |-> [questions |-> AllQuestions]] }

\* what the server (or the transport) answers to one chat-completion request;
\* elapsed is the raw wall-clock time of the call (the await included, however
\* it ends), usage the completion-token count of response.usage (<<>> when the
\* response carries no usage)
OkResponses ==
    { [kind |-> "ok", content |-> "Paris", elapsed |-> 10004, usage |-> <<10>>],
      [kind |-> "ok", content |-> "Rome", elapsed |-> 19996, usage |-> <<>>] }

FailResponses ==
    { [kind |-> "TimeoutError", elapsed |-> 3000000],
      [kind |-> "Exception", message |-> "Connection reset", elapsed |-> 250] }

Responses == OkResponses \cup FailResponses

\* further responses, for the result lists the aggregator is applied to
MoreResponses ==
    { [kind |-> "ok", content |-> "Berlin", elapsed |-> 15001, usage |-> <<20>>],
      [kind |-> "ok", content |-> "", elapsed |-> 10004, usage |-> <<0>>],
      [kind |-> "ok", content |-> "Madrid", elapsed |-> 20000, usage |-> <<10>>],
      [kind |-> "ok", content |-> "Lisbon", elapsed |-> 15000, usage |-> <<10>>] }

\* responses whose text meets the strings send_question and run_test test for:
\* a completion that starts with "ERROR", a completion and an exception
\* message that read like the timeout answer, and two other exceptions
EdgeResponses ==
    { [kind |-> "ok", content |-> "ERROR: overloaded", elapsed |-> 10004,
       usage |-> <<3>>],
      [kind |-> "ok", content |-> "ERROR: Request timed out.", elapsed |-> 10004,
       usage |-> <<6>>],
      [kind |-> "Exception", message |-> "Request timed out.", elapsed |-> 3000000],
      [kind |-> "Exception", message |-> "list index out of range", elapsed |-> 10004],
      [kind |-> "Exception", message |-> "", elapsed |-> 250] }

\* QualityEvaluator.evaluate_answer, an opaque pure function of its inputs:
\* the overall_quality of the report it returns, unless it raises
evaluate_answer(question, answer) ==
    IF answer = "Rome" THEN [raised |-> TRUE, value |-> 0]
    ELSE IF answer = "Berlin" THEN [raised |-> FALSE, value |-> 650]
    ELSE [raised |-> FALSE, value |-> 800]

-----------------------------------------------------------------------------
(* send_question *)

\* round(elapsed_ms, 1)
Round1(raw) == RoundDiv(raw, 10)

\* mutant: the warmup probe's answer is evaluated like any other
send_question_EvaluatesProbe(question, resp, is_warmup) ==
    LET result == [question |-> question, answer |-> "", time |-> 0,
                   token |-> 0, quality |-> 0, quality_metrics |-> NoKey,
                   is_warmup |-> is_warmup, response |-> resp]
    IN  IF resp.kind = "ok" THEN
            LET timed == [result EXCEPT !.answer = resp.content,
                                        !.time = Round1(resp.elapsed),
                                        !.token = IF resp.usage # <<>>
                                                  THEN resp.usage[1] ELSE 0]
            IN  IF timed.answer # "" /\ ~StartsWith(timed.answer, "ERROR") THEN
                    LET q == evaluate_answer(question, timed.answer)
                    IN  IF q.raised
                        THEN [timed EXCEPT !.quality = 0, !.quality_metrics = None]
                        ELSE [timed EXCEPT !.quality = q.value,
                                           !.quality_metrics = "QualityMetrics"]
                ELSE timed
        ELSE IF resp.kind = "TimeoutError" THEN
            [result EXCEPT !.answer = TIMEOUT_ANSWER]
        ELSE
            [result EXCEPT !.answer = "ERROR: " \o resp.message]

\* the record send_question returns; is_warmup is the call's argument and
\* response what the awaited call gave, both kept with the record as its
\* history: the dict the code builds has neither key
send_question(question, resp, is_warmup) ==
    LET result == [question |-> question, answer |-> "", time |-> 0,
                   token |-> 0, quality |-> 0, quality_metrics |-> NoKey,
                   is_warmup |-> is_warmup, response |-> resp]
    IN  IF resp.kind = "ok" THEN
            LET timed == [result EXCEPT !.answer = resp.content,
                                        !.time = Round1(resp.elapsed),
                                        !.token = IF resp.usage # <<>>
                                                  THEN resp.usage[1] ELSE 0]
            IN  IF is_warmup THEN timed
                ELSE IF timed.answer # "" /\ ~StartsWith(timed.answer, "ERROR") THEN
                    LET q == evaluate_answer(question, timed.answer)
                    IN  IF q.raised
                        THEN [timed EXCEPT !.quality = 0, !.quality_metrics = None]
                        ELSE [timed EXCEPT !.quality = q.value,
                                           !.quality_metrics = "QualityMetrics"]
                ELSE timed
        ELSE IF resp.kind = "TimeoutError" THEN
            [result EXCEPT !.answer = TIMEOUT_ANSWER]
        ELSE
            [result EXCEPT !.answer = "ERROR: " \o resp.message]

-----------------------------------------------------------------------------
(* calculate_aggregates *)

AggregateFields ==
    { "runtime_sum", "runtime_avg", "runtime_min", "runtime_max",
      "token_sum", "token_avg", "token_min", "token_max",
      "quality_sum", "quality_avg", "quality_min", "quality_max",
      "llm_load_time", "cold_start_factor" }

\* mutant: the column is not filtered
PositiveColumn_Unfiltered(res, field) == [k \in 1..Len(res) |-> res[k][field]]

\* [r[field] for r in res if r[field] > 0]
PositiveColumn(res, field) ==
    LET column == [k \in 1..Len(res) |-> res[k][field]]
    IN  SelectSeq(column, LAMBDA x : x > 0)

\* mutant: the mean of an empty list is not guarded
Mean_Unguarded(xs) == Div(Sum(xs), Len(xs))

\* round(sum(xs) / len(xs), n) if xs else 0
Mean(xs) == IF xs # <<>> THEN Div(Sum(xs), Len(xs)) ELSE Value(0)

\* round(sum(xs), n) if xs else 0
SumOrZero(xs) == IF xs # <<>> THEN Sum(xs) ELSE 0

\* mutant: the first value is taken for the smallest
MinOrZero_First(xs) == IF xs # <<>> THEN Head(xs) ELSE 0

\* round(min(xs), n) if xs else 0
MinOrZero(xs) == IF xs # <<>> THEN MinOf(xs) ELSE 0

\* round(max(xs), n) if xs else 0
MaxOrZero(xs) == IF xs # <<>> THEN MaxOf(xs) ELSE 0

\* mutant: only the load time is tested before dividing
ColdStartFactor_NoAvgGuard(load, runtime_avg) ==
    IF load > 0 THEN Div(load * 100, runtime_avg) ELSE Value(0)

\* round(load / runtime_avg, 2) if load > 0 and runtime_avg > 0 else 0
ColdStartFactor(load, runtime_avg) ==
    IF load > 0 /\ runtime_avg > 0 THEN Div(load * 100, runtime_avg) ELSE Value(0)

\* the dict calculate_aggregates returns for self.results = res and
\* self.llm_load_time = load, or raised when one of its divisions raises
calculate_aggregates(res, load) ==
    IF res = <<>> THEN Value(EmptyDict)
    ELSE
        LET runtimes == PositiveColumn(res, "time")
            tokens == PositiveColumn(res, "token")
            qualities == PositiveColumn(res, "quality")
            runtime_avg == Mean(runtimes)
            token_avg == Mean(tokens)
            quality_avg == Mean(qualities)
            cold_start_factor ==
                IF runtime_avg.raised THEN runtime_avg
                ELSE ColdStartFactor(load, runtime_avg.value)
        IN  IF \/ runtime_avg.raised \/ token_avg.raised
               \/ quality_avg.raised \/ cold_start_factor.raised
            THEN [raised |-> TRUE, value |-> EmptyDict]
            ELSE Value(
                [ runtime_sum |-> SumOrZero(runtimes),
                  runtime_avg |-> runtime_avg.value,
                  runtime_min |-> MinOrZero(runtimes),
                  runtime_max |-> MaxOrZero(runtimes),
                  token_sum |-> SumOrZero(tokens),
                  token_avg |-> token_avg.value,
                  token_min |-> MinOrZero(tokens),
                  token_max |-> MaxOrZero(tokens),
                  quality_sum |-> SumOrZero(qualities),
                  quality_avg |-> quality_avg.value,
                  quality_min |-> MinOrZero(qualities),
                  quality_max |-> MaxOrZero(qualities),
                  llm_load_time |-> load,
                  cold_start_factor |-> cold_start_factor.value ])

-----------------------------------------------------------------------------
(* The initial state: a constructed LLMStressTest, before main() loads anything *)

\* what results/<output_filename>.json holds when the process starts
InitialFiles == { [kind |-> "absent"], [kind |-> "old"] }

Init ==
    /\ pc = "load_config"
    /\ config = EmptyDict
    /\ questions = <<>>
    /\ results = <<>>
    /\ llm_load_time = 0
    /\ model_metadata = EmptyDict
    /\ force_overwrite \in BOOLEAN
    /\ warmup_result = <<>>
    /\ i = 0
    /\ batch_results = EmptyDict
    /\ inflight = {}
    /\ sent = <<>>
    /\ timeout_found = FALSE
    /\ output_data = <<>>
    /\ result_file \in InitialFiles
    /\ emergency_file = <<>>
    /\ exit_code = <<>>
    /\ agg_calls = 0

\* mutant: an abort leaves the process with status 0
Exit1_Status0 ==
    /\ pc' = "aborted"
    /\ exit_code' = <<0>>

\* sys.exit(1)
Exit1 ==
    /\ pc' = "aborted"
    /\ exit_code' = <<1>>

-----------------------------------------------------------------------------
(* main(): load_config, load_questions *)

\* mutant: a parsed config.json is accepted whatever fields it has
load_config_NoFieldCheck ==
    /\ pc = "load_config"
    /\ \E f \in ConfigFiles :
        IF "error" \in DOMAIN f THEN
            /\ Exit1
            /\ UNCHANGED config
        ELSE
            /\ config' = f.json
            /\ pc' = "load_questions"
            /\ UNCHANGED exit_code
    /\ UNCHANGED <<questions, results, llm_load_time, model_metadata,
                   force_overwrite, warmup_result, i, batch_results, inflight,
                   sent, timeout_found, output_data, result_file,
                   emergency_file, agg_calls>>

load_config ==
    /\ pc = "load_config"
    /\ \E f \in ConfigFiles :
        IF "error" \in DOMAIN f THEN
            /\ Exit1
            /\ UNCHANGED config
        ELSE
            /\ config' = f.json
            /\ IF \A field \in RequiredFields : field \in DOMAIN f.json
               THEN pc' = "load_questions" /\ UNCHANGED exit_code
               ELSE Exit1
    /\ UNCHANGED <<questions, results, llm_load_time, model_metadata,
                   force_overwrite, warmup_result, i, batch_results, inflight,
                   sent, timeout_found, output_data, result_file,
                   emergency_file, agg_calls>>

load_questions ==
    /\ pc = "load_questions"
    /\ \E f \in QuestionFiles :
        IF "error" \in DOMAIN f \/ "fragen" \notin DOMAIN f.json THEN
            /\ Exit1
            /\ UNCHANGED questions
        ELSE
            LET all_questions == f.json.fragen
                num_questions == Min(config.questions, Len(all_questions))
            IN  /\ questions' = SubSeq(all_questions, 1, num_questions)
                /\ pc' = "check_output_file"
                /\ UNCHANGED exit_code
    /\ UNCHANGED <<config, results, llm_load_time, model_metadata,
                   force_overwrite, warmup_result, i, batch_results, inflight,
                   sent, timeout_found, output_data, result_file,
                   emergency_file, agg_calls>>

-----------------------------------------------------------------------------
(* run_test: check_output_file, test_connection *)

\* what the user types at the overwrite prompt
UserInputs == { "j", " JA", "Yes ", "n", "" }

LowerChar(ch) ==
    CASE ch = "J" -> "j"
      [] ch = "A" -> "a"
      [] ch = "Y" -> "y"
      [] ch = "N" -> "n"
      [] OTHER -> ch

\* str.lower()
RECURSIVE Lower(_)
Lower(str) ==
    IF str = "" THEN ""
    ELSE LowerChar(SubSeq(str, 1, 1)) \o Lower(SubSeq(str, 2, Len(str)))

\* str.strip()
RECURSIVE Strip(_)
Strip(str) ==
    IF str = "" THEN ""
    ELSE IF SubSeq(str, 1, 1) = " " THEN Strip(SubSeq(str, 2, Len(str)))
    ELSE IF SubSeq(str, Len(str), Len(str)) = " "
         THEN Strip(SubSeq(str, 1, Len(str) - 1))
    ELSE str

\* mutant: the user is asked whenever the file exists, forced or not
check_output_file_IgnoresForce ==
    /\ pc = "check_output_file"
    /\ IF result_file.kind # "absent" THEN
            \E typed \in UserInputs :
                LET response == Lower(Strip(typed))
                IN  IF response \notin {"j", "ja", "y", "yes"}
                    THEN Exit1
                    ELSE pc' = "test_connection" /\ UNCHANGED exit_code
       ELSE pc' = "test_connection" /\ UNCHANGED exit_code
    /\ UNCHANGED <<config, questions, results, llm_load_time, model_metadata,
                   force_overwrite, warmup_result, i, batch_results, inflight,
                   sent, timeout_found, output_data, result_file,
                   emergency_file, agg_calls>>

check_output_file ==
    /\ pc = "check_output_file"
    /\ IF result_file.kind # "absent" /\ ~force_overwrite THEN
            \E typed \in UserInputs :
                LET response == Lower(Strip(typed))
                IN  IF response \notin {"j", "ja", "y", "yes"}
                    THEN Exit1
                    ELSE pc' = "test_connection" /\ UNCHANGED exit_code
       ELSE pc' = "test_connection" /\ UNCHANGED exit_code
    /\ UNCHANGED <<config, questions, results, llm_load_time, model_metadata,
                   force_overwrite, warmup_result, i, batch_results, inflight,
                   sent, timeout_found, output_data, result_file,
                   emergency_file, agg_calls>>

\* what get_model_metadata returns: the details found for the model, or the
\* all-None dict when the request fails or the model is not listed
Metadata ==
    { [parameter_size |-> None, quantization_level |-> None, family |-> None],
      [parameter_size |-> "8B", quantization_level |-> "Q4_0", family |-> "llama"] }

test_connection ==
    /\ pc = "test_connection"
    /\ \/ \* self.client.models.list() raises
          /\ Exit1
          /\ UNCHANGED model_metadata
       \/ \E metadata \in Metadata :
            /\ model_metadata' = metadata
            /\ pc' = "warmup"
            /\ UNCHANGED exit_code
    /\ UNCHANGED <<config, questions, results, llm_load_time,
                   force_overwrite, warmup_result, i, batch_results, inflight,
                   sent, timeout_found, output_data, result_file,
                   emergency_file, agg_calls>>

-----------------------------------------------------------------------------
(* run_test: the warmup protocol and the batch scheduler *)

\* questions[1:]
remaining_questions == SubSeq(questions, 2, Len(questions))

\* mutant: the remaining questions start at the first question again
QuestionIndex_OffByOne(k) == k + 1

\* the position in questions of remaining_questions[k] (k counted from 0)
QuestionIndex(k) == k + 2

\* mutant: the slice starts at the last question of the chunk before
Chunk_Overlap(offset, concurrent) ==
    { k \in 0..(Len(remaining_questions) - 1) :
        offset - 1 <= k /\ k < offset + concurrent }

\* mutant: the slice is one question too long
Chunk_OneMore(offset, concurrent) ==
    { k \in 0..(Len(remaining_questions) - 1) :
        offset <= k /\ k < offset + concurrent + 1 }

\* remaining_questions[offset : offset + concurrent], as offsets
Chunk(offset, concurrent) ==
    { k \in 0..(Len(remaining_questions) - 1) :
        offset <= k /\ k < offset + concurrent }

\* mutant: the tasks of a chunk are created from the last question to the first
RequestsFor_Reversed(ks, is_warmup) ==
    [n \in 1..Cardinality(ks) |->
        [question |-> QuestionIndex(CHOOSE k \in ks :
                                       Cardinality({j \in ks : j > k}) = n - 1),
         is_warmup |-> is_warmup]]

\* the coroutines created for the questions at the offsets ks start running, in
\* input order, each up to its await of chat.completions.create
RequestsFor(ks, is_warmup) ==
    [n \in 1..Cardinality(ks) |->
        [question |-> QuestionIndex(CHOOSE k \in ks :
                                       Cardinality({j \in ks : j < k}) = n - 1),
         is_warmup |-> is_warmup]]

\* every request started earlier has returned when run_test starts new ones
StartRequests(requests) ==
    /\ sent' = sent \o requests
    /\ inflight' = (Len(sent) + 1)..(Len(sent) + Len(requests))

\* mutant: every error answer is taken for a timeout
IsTimeout_AnyError(result) == StartsWith(result.answer, "ERROR")

\* result["answer"] == "ERROR: Request timed out."
IsTimeout(result) == result.answer = TIMEOUT_ANSWER

\* lines 665-690, entered with the loop variable at offset: dispatch the next
\* chunk (concurrent > 1) or the next question, or leave the session block
Schedule(offset) ==
    /\ i' = offset
    /\ IF offset < Len(remaining_questions) THEN
            IF config.concurrent > 1 THEN
                /\ StartRequests(RequestsFor(Chunk(offset, config.concurrent), FALSE))
                /\ pc' = "batch_wait"
            ELSE
                /\ StartRequests(RequestsFor({offset}, FALSE))
                /\ pc' = "seq_wait"
       ELSE
            /\ pc' = "save"
            /\ inflight' = {}
            /\ UNCHANGED sent

\* mutant: a timeout ends the run at once, nothing is aggregated or written
Break_SkipsSave ==
    /\ timeout_found' = TRUE
    /\ pc' = "aborted"
    /\ inflight' = {}
    /\ UNCHANGED <<sent, i>>

\* the break of lines 679 and 690
Break ==
    /\ timeout_found' = TRUE
    /\ pc' = "save"
    /\ inflight' = {}
    /\ UNCHANGED <<sent, i>>

\* mutant: the probe is started without looking at the question list
warmup_ProbesAlways ==
    /\ pc = "warmup"
    /\ StartRequests(<<[question |-> 1, is_warmup |-> TRUE]>>)
    /\ pc' = "warmup_wait"
    /\ UNCHANGED <<llm_load_time, i>>
    /\ UNCHANGED <<config, questions, results, model_metadata,
                   force_overwrite, warmup_result, batch_results,
                   timeout_found, output_data, result_file,
                   emergency_file, exit_code, agg_calls>>

\* lines 636-641 and 661-663
warmup ==
    /\ pc = "warmup"
    /\ IF Len(questions) > 0 THEN
            /\ StartRequests(<<[question |-> 1, is_warmup |-> TRUE]>>)
            /\ pc' = "warmup_wait"
            /\ UNCHANGED <<llm_load_time, i>>
       ELSE
            /\ llm_load_time' = 0
            /\ Schedule(0)
    /\ UNCHANGED <<config, questions, results, model_metadata,
                   force_overwrite, warmup_result, batch_results,
                   timeout_found, output_data, result_file,
                   emergency_file, exit_code, agg_calls>>

\* lines 641-646: the warmup probe returns, the hot execution starts
warmup_returns ==
    /\ pc = "warmup_wait"
    /\ \E resp \in Responses :
        warmup_result' = <<send_question(questions[1], resp, TRUE)>>
    /\ StartRequests(<<[question |-> 1, is_warmup |-> FALSE]>>)
    /\ pc' = "hot_wait"
    /\ UNCHANGED <<config, questions, results, llm_load_time, model_metadata,
                   force_overwrite, i, batch_results,
                   timeout_found, output_data, result_file,
                   emergency_file, exit_code, agg_calls>>

\* mutant: the difference is not clamped
LoadTime_Unclamped(warmup_time, real_time) == warmup_time - real_time

\* mutant: the two times are subtracted the other way round
LoadTime_Swapped(warmup_time, real_time) == Max(0, real_time - warmup_time)

\* round(max(0, warmup_time - real_time), 1); both times are already rounded
\* to a tenth, so is their difference
LoadTime(warmup_time, real_time) == Max(0, warmup_time - real_time)

\* mutant: the probe's record is stored
FirstEntry_Probe(probe_result, real_result) == probe_result

\* line 656: of the two records of the first question, the one appended
FirstEntry(probe_result, real_result) == real_result

\* lines 646-667: the hot execution returns
hot_returns ==
    /\ pc = "hot_wait"
    /\ \E resp \in Responses :
        LET real_result == send_question(questions[1], resp, FALSE)
        IN  /\ llm_load_time' = LoadTime(warmup_result[1].time, real_result.time)
            /\ results' = Append(results, FirstEntry(warmup_result[1], real_result))
    /\ Schedule(0)
    /\ UNCHANGED <<config, questions, model_metadata,
                   force_overwrite, warmup_result, batch_results,
                   timeout_found, output_data, result_file,
                   emergency_file, exit_code, agg_calls>>

\* mutant: a task appends its record to self.results as soon as it returns
task_returns_Appends ==
    /\ pc = "batch_wait"
    /\ \E n \in inflight, resp \in Responses :
        LET record == send_question(questions[sent[n].question], resp, FALSE)
        IN  /\ batch_results' = (n :> record) @@ batch_results
            /\ results' = Append(results, record)
            /\ inflight' = inflight \ {n}
    /\ UNCHANGED <<pc, config, questions, llm_load_time, model_metadata,
                   force_overwrite, warmup_result, i, sent,
                   timeout_found, output_data, result_file,
                   emergency_file, exit_code, agg_calls>>

\* one send_question task of the current gather returns
task_returns ==
    /\ pc = "batch_wait"
    /\ \E n \in inflight, resp \in Responses :
        /\ batch_results' =
              (n :> send_question(questions[sent[n].question], resp, FALSE))
              @@ batch_results
        /\ inflight' = inflight \ {n}
    /\ UNCHANGED <<pc, config, questions, results, llm_load_time, model_metadata,
                   force_overwrite, warmup_result, i, sent,
                   timeout_found, output_data, result_file,
                   emergency_file, exit_code, agg_calls>>

\* mutant: the results come in the reverse order of the tasks
GatherResults_Reversed(done) ==
    LET last == CHOOSE n \in DOMAIN done : \A m \in DOMAIN done : n >= m
    IN  [k \in 1..Cardinality(DOMAIN done) |-> done[last - k + 1]]

\* mutant: the tasks after the first timed-out one are cancelled
GatherResults_Cancelled(done) ==
    LET first == CHOOSE n \in DOMAIN done : \A m \in DOMAIN done : n <= m
        all == [k \in 1..Cardinality(DOMAIN done) |-> done[first + k - 1]]
        stop == { k \in 1..Len(all) : IsTimeout(all[k]) }
    IN  IF stop = {} THEN all
        ELSE SubSeq(all, 1, CHOOSE k \in stop : \A j \in stop : k <= j)

\* asyncio.gather's return value: the tasks' results in the order of the tasks
GatherResults(done) ==
    LET first == CHOOSE n \in DOMAIN done : \A m \in DOMAIN done : n <= m
    IN  [k \in 1..Cardinality(DOMAIN done) |-> done[first + k - 1]]

\* mutant: any error answer in the chunk ends the loop
AnyTimeout_AnyError(batch) ==
    \E k \in 1..Len(batch) : StartsWith(batch[k].answer, "ERROR")

\* mutant: only the last result of the chunk is inspected
AnyTimeout_LastOnly(batch) == IsTimeout(batch[Len(batch)])

\* any(result["answer"] == "ERROR: Request timed out." for result in batch)
AnyTimeout(batch) == \E k \in 1..Len(batch) : IsTimeout(batch[k])

\* lines 672-679: gather returns once every task of the chunk has returned
gather_returns ==
    /\ pc = "batch_wait"
    /\ inflight = {}
    /\ LET batch == GatherResults(batch_results)
       IN  /\ results' = results \o batch
           /\ IF AnyTimeout(batch) THEN Break
              ELSE /\ Schedule(i + config.concurrent)
                   /\ UNCHANGED timeout_found
    /\ batch_results' = EmptyDict
    /\ UNCHANGED <<config, questions, llm_load_time, model_metadata,
                   force_overwrite, warmup_result,
                   output_data, result_file,
                   emergency_file, exit_code, agg_calls>>

\* lines 684-690: the request of the sequential loop returns
sequential_returns ==
    /\ pc = "seq_wait"
    /\ \E n \in inflight, resp \in Responses :
        LET result == send_question(questions[sent[n].question], resp, FALSE)
        IN  /\ results' = Append(results, result)
            /\ IF IsTimeout(result) THEN Break
               ELSE /\ Schedule(i + 1)
                    /\ UNCHANGED timeout_found
    /\ UNCHANGED <<config, questions, llm_load_time, model_metadata,
                   force_overwrite, warmup_result, batch_results,
                   output_data, result_file,
                   emergency_file, exit_code, agg_calls>>

-----------------------------------------------------------------------------
(* save_results, update_model_registry and the end of main() *)

\* what open(output_path, 'w') + json.dump can do
WriteOutcomes == { "written", "open_fails", "dump_fails" }

\* how subprocess.run of update_model_registry.py can end
RegistryOutcomes == { "returncode_0", "returncode_1", "TimeoutExpired", "OSError" }

\* the dict save_results builds from the object's fields
OutputData(aggregate) ==
    [ meta |-> [ server |-> config.url,
                 model |-> config.model,
                 concurrent |-> config.concurrent,
                 questions |-> config.questions,
                 timeout |-> config.timeout,
                 parameter_size |-> model_metadata.parameter_size,
                 quantization_level |-> model_metadata.quantization_level,
                 family |-> model_metadata.family ],
      results |-> results,
      aggregate |-> aggregate ]

\* mutant: the registry hook is invoked after the emergency dump as well
save_results_HookAlways ==
    /\ pc = "save"
    /\ agg_calls' = agg_calls + 1
    /\ LET aggregate == calculate_aggregates(results, llm_load_time)
           data == OutputData(aggregate.value)
       IN  IF aggregate.raised THEN
                /\ Exit1
                /\ UNCHANGED <<output_data, result_file, emergency_file>>
           ELSE
                /\ output_data' = <<data>>
                /\ \E outcome \in WriteOutcomes :
                    IF outcome = "written" THEN
                        /\ result_file' = [kind |-> "artifact", data |-> data]
                        /\ pc' = "update_model_registry"
                        /\ UNCHANGED <<emergency_file, exit_code>>
                    ELSE
                        /\ result_file' = IF outcome = "open_fails" THEN result_file
                                          ELSE [kind |-> "truncated"]
                        /\ \/ /\ emergency_file' = <<data>>
                              /\ pc' = "update_model_registry"
                              /\ UNCHANGED exit_code
                           \/ /\ Exit1
                              /\ UNCHANGED emergency_file
    /\ UNCHANGED <<config, questions, results, llm_load_time, model_metadata,
                   force_overwrite, warmup_result, i, batch_results, inflight,
                   sent, timeout_found>>

\* lines 692-705 and 737-783: save_results, then run_test returns and main() ends
save_results ==
    /\ pc = "save"
    /\ agg_calls' = agg_calls + 1
    /\ LET aggregate == calculate_aggregates(results, llm_load_time)
           data == OutputData(aggregate.value)
       IN  IF aggregate.raised THEN
                \* the exception leaves save_results and run_test returns False
                /\ Exit1
                /\ UNCHANGED <<output_data, result_file, emergency_file>>
           ELSE
                /\ output_data' = <<data>>
                /\ \E outcome \in WriteOutcomes :
                    IF outcome = "written" THEN
                        /\ result_file' = [kind |-> "artifact", data |-> data]
                        /\ pc' = "update_model_registry"
                        /\ UNCHANGED <<emergency_file, exit_code>>
                    ELSE
                        /\ result_file' = IF outcome = "open_fails" THEN result_file
                                          ELSE [kind |-> "truncated"]
                        /\ \/ \* the emergency dump is written
                              /\ emergency_file' = <<data>>
                              /\ pc' = "done"
                              /\ exit_code' = <<0>>
                           \/ \* the emergency dump raises too
                              /\ Exit1
                              /\ UNCHANGED emergency_file
    /\ UNCHANGED <<config, questions, results, llm_load_time, model_metadata,
                   force_overwrite, warmup_result, i, batch_results, inflight,
                   sent, timeout_found>>

\* mutant: a hook that does not exit 0 fails the run
update_model_registry_FailureAborts ==
    /\ pc = "update_model_registry"
    /\ \E outcome \in RegistryOutcomes :
        IF outcome = "returncode_0"
        THEN pc' = "done" /\ exit_code' = <<0>>
        ELSE Exit1
    /\ UNCHANGED <<config, questions, results, llm_load_time, model_metadata,
                   force_overwrite, warmup_result, i, batch_results, inflight,
                   sent, timeout_found, output_data, result_file,
                   emergency_file, agg_calls>>

\* mutant: subprocess.run has no timeout, a hook that hangs is waited for
update_model_registry_NoTimeout ==
    /\ pc = "update_model_registry"
    /\ \E outcome \in RegistryOutcomes :
        IF outcome = "TimeoutExpired"
        THEN pc' = "update_model_registry_wait" /\ UNCHANGED exit_code
        ELSE pc' = "done" /\ exit_code' = <<0>>
    /\ UNCHANGED <<config, questions, results, llm_load_time, model_metadata,
                   force_overwrite, warmup_result, i, batch_results, inflight,
                   sent, timeout_found, output_data, result_file,
                   emergency_file, agg_calls>>

\* lines 785-814, then run_test returns True
update_model_registry ==
    /\ pc = "update_model_registry"
    /\ \E outcome \in RegistryOutcomes :
        /\ pc' = "done"
        /\ exit_code' = <<0>>
    /\ UNCHANGED <<config, questions, results, llm_load_time, model_metadata,
                   force_overwrite, warmup_result, i, batch_results, inflight,
                   sent, timeout_found, output_data, result_file,
                   emergency_file, agg_calls>>

-----------------------------------------------------------------------------
(* The run *)

Next ==
    \/ load_config
    \/ load_questions
    \/ check_output_file
    \/ test_connection
    \/ warmup
    \/ warmup_returns
    \/ hot_returns
    \/ task_returns
    \/ gather_returns
    \/ sequential_returns
    \/ save_results
    \/ update_model_registry

Spec == Init /\ [][Next]_vars

\* every awaited call returns, raises or times out (the client's timeout,
\* line 489), input() returns and subprocess.run is bounded by timeout=30
\* (line 795): whatever step the run waits for is eventually taken
SpecLive == Spec /\ WF_vars(Next)

-----------------------------------------------------------------------------
(* Properties of the run *)

\* the number of loaded questions
N == Len(questions)

\* the run has a complete configuration and runs sequentially / concurrently
Sequential == "concurrent" \in DOMAIN config /\ config.concurrent <= 1
Concurrent(c) == "concurrent" \in DOMAIN config /\ config.concurrent = c

\* the records that requests have returned so far for the question at index q
Returned(q) ==
    { results[n] : n \in { m \in 1..Len(results) : results[m].question = questions[q] } }
    \cup { batch_results[n] :
             n \in { m \in DOMAIN batch_results : sent[m].question = q } }

CarriesSentinel(record) == record.answer = "ERROR: Request timed out."

\* no request of the run has returned the timeout sentinel
NoTimeout ==
    /\ \A n \in 1..Len(results) : ~CarriesSentinel(results[n])
    /\ \A n \in 1..Len(warmup_result) : ~CarriesSentinel(warmup_result[n])

\* C1: a run with N loaded questions never holds more than N result entries,
\* and when no request returned the timeout sentinel the result list handed to
\* the writer holds exactly N entries, at every concurrency level.
C1_ResultCount ==
    /\ Len(results) <= N
    /\ (output_data # <<>> /\ NoTimeout) => Len(output_data[1].results) = N

C1_Witness ==
    /\ result_file.kind = "artifact"
    /\ NoTimeout
    /\ N = MaxQuestions
    /\ Concurrent(2)
    /\ \E n \in 1..Len(results) : results[n].time = 0
    /\ Len(result_file.data.results) = N

\* C2: the first question is sent twice, first as warmup probe, and contributes
\* exactly one result entry, results[0], which is the record of the second
\* (hot) execution; the probe's record is never in the result list.
C2_HotResultOnly ==
    /\ \A n \in 1..Len(results) : ~results[n].is_warmup
    /\ Len(results) >= 1 =>
        /\ results[1].question = questions[1]
        /\ Cardinality({ n \in 1..Len(results) :
                            results[n].question = questions[1] }) = 1
        /\ { m \in 1..Len(sent) : sent[m].question = 1 } = {1, 2}
        /\ sent[1].is_warmup /\ ~sent[2].is_warmup

C2_Witness ==
    /\ pc = "done"
    /\ Len(results) = N
    /\ N >= 2
    /\ warmup_result[1].time > results[1].time
    /\ results[1].time > 0
    /\ results[1].quality > 0

\* the chunk of the batch scheduler that the question at index q belongs to:
\* with concurrent > 1 the remaining questions are cut into chunks of
\* concurrent, else every remaining question is a step of its own
ChunkNo(q) ==
    IF config.concurrent > 1 THEN (q - 2) \div config.concurrent ELSE q - 2

\* C3: once the request of a remaining question has returned the timeout
\* sentinel, no request of a later question (sequential mode) or of a later
\* chunk (concurrent mode) is ever started.
C3_AbortOnTimeout ==
    \A q \in 2..N :
        (\E record \in Returned(q) : CarriesSentinel(record)) =>
            \A m \in 1..Len(sent) : ChunkNo(sent[m].question) <= ChunkNo(q)

C3_Witness ==
    /\ pc = "done"
    /\ Concurrent(2)
    /\ Len(results) = 3
    /\ Len(results) < N
    /\ CarriesSentinel(results[2])
    /\ ~CarriesSentinel(results[3])

\* the sum of one field over a result list
Total(res, field) == Sum([k \in 1..Len(res) |-> res[k][field]])

\* C4: a timeout is a graceful early stop: after a break on timeout the run
\* still aggregates and hands the writer exactly the entries collected so far
\* (the timed-out one included) with an aggregate over exactly those entries;
\* the written artifact is that data and the run exits 0 (exit 1 remains only
\* for a disk on which neither the artifact nor the emergency dump can be
\* written).  In sequential mode a timeout at index k >= 1 leaves k+1 entries.
C4_TimeoutIsGracefulStop ==
    /\ timeout_found =>
        /\ pc \in {"save", "update_model_registry", "done", "aborted"}
        /\ pc # "save" => agg_calls = 1 /\ output_data # <<>>
        /\ \E n \in 1..Len(results) : CarriesSentinel(results[n])
        /\ output_data # <<>> =>
            /\ output_data[1].results = results
            /\ output_data[1].aggregate["runtime_sum"] = Total(results, "time")
            /\ output_data[1].aggregate["token_sum"] = Total(results, "token")
            /\ output_data[1].aggregate["quality_sum"] = Total(results, "quality")
        /\ result_file.kind = "artifact" => result_file.data = output_data[1]
        /\ pc = "done" => exit_code = <<0>>
        /\ pc = "aborted" => result_file.kind # "artifact" /\ emergency_file = <<>>
    /\ Sequential =>
        \A n \in 2..Len(results) :
            CarriesSentinel(results[n]) => Len(results) = n

C4_Witness ==
    /\ pc = "done"
    /\ exit_code = <<0>>
    /\ Concurrent(1)
    /\ N = MaxQuestions
    /\ Len(results) = 2
    /\ CarriesSentinel(results[2])
    /\ result_file.kind = "artifact"
    /\ result_file.data.results = results
    /\ result_file.data.aggregate["runtime_sum"] = results[1].time
    /\ results[1].time > 0

\* C5: at most concurrent chat-completion requests are in flight at any time,
\* and at most one during the warmup phase.
C5_ConcurrencyBound ==
    /\ inflight # {} => Cardinality(inflight) <= config.concurrent
    /\ pc \in {"warmup_wait", "hot_wait"} => Cardinality(inflight) <= 1
    /\ \A n \in inflight : n \in 1..Len(sent)

C5_Witness ==
    /\ Concurrent(MaxConcurrent)
    /\ Cardinality(inflight) = MaxConcurrent

\* C6: in sequential mode the result list follows the question list:
\* results[n] is the record of questions[n] for every n.
C6_SequentialOrder ==
    Sequential =>
        /\ Len(results) <= N
        /\ \A n \in 1..Len(results) : results[n].question = questions[n]

C6_Witness ==
    /\ Concurrent(1)
    /\ N = MaxQuestions
    /\ Len(results) = N
    /\ results[N].question = AllQuestions[N]

\* C7: llm_load_time is never negative and equals
\* max(0, warmup time - hot time); equal timings give 0.
C7_LoadTimeClamped ==
    /\ llm_load_time >= 0
    /\ results # <<>> =>
        LET w == warmup_result[1].time
            r == results[1].time
        IN  /\ w > r => llm_load_time = w - r
            /\ w <= r => llm_load_time = 0
    /\ results = <<>> => llm_load_time = 0

C7_Witness ==
    /\ results # <<>>
    /\ warmup_result[1].time > 0
    /\ warmup_result[1].time = results[1].time
    /\ llm_load_time = 0

\* aggregate.get(field, 0), the way llm_auswertung.py reads the artifact
Get(aggregate, field) == IF field \in DOMAIN aggregate THEN aggregate[field] ELSE 0

NoSuccess(res) == \A n \in 1..Len(res) : res[n].time = 0

\* C10 as stated: whenever the result list holds no successful (time > 0)
\* result, the empty list included, the aggregate has every field and every
\* field is 0.
C10_AllZeroAggregate ==
    /\ agg_calls > 0 => output_data # <<>>
    /\ (output_data # <<>> /\ NoSuccess(output_data[1].results)) =>
        /\ DOMAIN output_data[1].aggregate = AggregateFields
        /\ \A f \in AggregateFields : output_data[1].aggregate[f] = 0

\* C10 as amended: with no successful result the aggregator does not raise;
\* for the empty result list it returns the empty dict, and for a list of
\* failed requests an aggregate with every field, in which the runtime, token
\* and quality statistics and cold_start_factor are 0 and llm_load_time is the
\* run's load time, which is the probe's whole time when the probe succeeded.
C10_ZeroStatistics ==
    /\ agg_calls > 0 => output_data # <<>>
    /\ (output_data # <<>> /\ NoSuccess(output_data[1].results)) =>
        LET aggregate == output_data[1].aggregate
        IN  IF output_data[1].results = <<>> THEN aggregate = EmptyDict
            ELSE /\ DOMAIN aggregate = AggregateFields
                 /\ \A f \in AggregateFields \ {"llm_load_time"} : aggregate[f] = 0
                 /\ aggregate["llm_load_time"] = llm_load_time
                 /\ aggregate["llm_load_time"] = warmup_result[1].time

C10_Witness ==
    /\ output_data # <<>>
    /\ Len(output_data[1].results) >= 2
    /\ NoSuccess(output_data[1].results)
    /\ output_data[1].aggregate["llm_load_time"] > 0
    /\ output_data[1].aggregate["runtime_avg"] = 0

\* the call that gave this record ran into asyncio.TimeoutError
TimedOut(record) == record.response.kind = "TimeoutError"

\* the record of a call that raised something other than a timeout
NonTimeoutError(record) == record.response.kind = "Exception"

\* the records stored so far, in the result list or by the tasks of the
\* running gather
Recorded ==
    { results[n] : n \in 1..Len(results) }
    \cup { batch_results[n] : n \in DOMAIN batch_results }

\* the scheduling loop is over
LoopLeft == pc \in {"save", "update_model_registry", "done"} \/ agg_calls > 0

\* C11: a request that fails with a non-timeout error is recorded as an error
\* result (an "ERROR: " answer with time, token and quality 0) and never stops
\* scheduling: while no recorded request carries the timeout sentinel the next
\* question is always dispatched, the loop is left without a break only with
\* all N entries, and a break happens only with the sentinel in the list.
C11_ErrorsDoNotStop ==
    /\ \A record \in Recorded :
        NonTimeoutError(record) =>
            /\ record.answer = "ERROR: " \o record.response.message
            /\ record.time = 0 /\ record.token = 0 /\ record.quality = 0
    /\ (LoopLeft /\ ~timeout_found) => Len(results) = N
    /\ timeout_found => \E n \in 1..Len(results) : CarriesSentinel(results[n])
    /\ (Len(results) >= 1 /\ Len(results) < N /\ ~timeout_found) =>
        /\ pc \in {"batch_wait", "seq_wait"}
        /\ \E m \in 1..Len(sent) : sent[m].question = Len(results) + 1

C11_Witness ==
    /\ pc = "done"
    /\ Concurrent(2)
    /\ N = MaxQuestions
    /\ Len(results) = N
    /\ \A n \in 1..N : NonTimeoutError(results[n])
    /\ NonTimeoutError(warmup_result[1])
    /\ result_file.kind = "artifact"
    /\ Len(result_file.data.results) = N

\* the process has ended with this status
Exited(status) == exit_code = <<status>>

\* main() or run_test gave up before the first request: the configuration or
\* the questions could not be loaded, the user declined the overwrite, or the
\* connection test failed
AbortedBeforeRun ==
    /\ pc = "aborted"
    /\ agg_calls = 0 /\ sent = <<>> /\ results = <<>> /\ output_data = <<>>

\* C12 as stated: the process exits 1 exactly when the run is aborted before
\* its first request (config error, question-load error, connection failure,
\* declined overwrite) and 0 otherwise; nothing that happens later, a failed
\* write of the artifact included, makes it exit 1.
C12_ExitOneOnlyOnAbort ==
    /\ Exited(1) <=> AbortedBeforeRun
    /\ Exited(0) <=> pc = "done"
    /\ exit_code = <<>> <=> pc \notin {"aborted", "done"}

\* C12 as amended: the process exits 1 exactly when the run is aborted before
\* its first request or when, after the run, neither the artifact nor the
\* emergency dump could be written; in every other case it exits 0 and the
\* run's data is on disk, as the artifact or as the emergency dump.
C12_ExitCode ==
    /\ Exited(1) <=> pc = "aborted"
    /\ Exited(0) <=> pc = "done"
    /\ exit_code = <<>> <=> pc \notin {"aborted", "done"}
    /\ pc = "aborted" =>
        \/ AbortedBeforeRun
        \/ /\ agg_calls = 1 /\ output_data # <<>>
           /\ result_file.kind # "artifact"
           /\ emergency_file = <<>>
    /\ pc = "done" =>
        \/ result_file.kind = "artifact" /\ result_file.data = output_data[1]
        \/ result_file.kind # "artifact" /\ emergency_file = output_data

C12_Witness ==
    /\ pc = "done"
    /\ Exited(0)
    /\ result_file.kind = "truncated"
    /\ emergency_file # <<>>
    /\ model_metadata.family = None
    /\ \E n \in 1..Len(results) : CarriesSentinel(results[n])
    /\ \E n \in 1..Len(results) : NonTimeoutError(results[n])
    /\ \E n \in 1..Len(results) : results[n].quality_metrics = None

\* the configuration has every required field
Complete(cfg) == \A field \in RequiredFields : field \in DOMAIN cfg

\* no connection test has succeeded, no request was started, nothing was
\* aggregated or written
NothingDone ==
    /\ model_metadata = EmptyDict
    /\ sent = <<>> /\ inflight = {} /\ warmup_result = <<>> /\ results = <<>>
    /\ agg_calls = 0 /\ output_data = <<>>
    /\ result_file \in InitialFiles /\ emergency_file = <<>>

\* C13: a run whose configuration lacks a required field, or whose config or
\* questions file cannot be read, ends in main() with exit status 1 before
\* run_test is entered: the step that leaves load_config or load_questions
\* goes to the next loading step or to the end of the process, which is final,
\* and up to then no connection test, no metadata fetch, no request and no
\* write has happened.
C13_AbortBeforeNetwork ==
    /\ [](~Complete(config) => (pc \in {"load_config", "aborted"} /\ NothingDone))
    /\ [][ /\ pc # "aborted"
           /\ config' # config => pc = "load_config"
           /\ pc \in {"load_config", "load_questions"} =>
                /\ NothingDone /\ NothingDone'
                /\ result_file' = result_file
                /\ pc' \in {"aborted", IF pc = "load_config" THEN "load_questions"
                                       ELSE "check_output_file"}
                /\ pc' = "aborted" => exit_code' = <<1>>
                /\ ~Complete(config') => pc' = "aborted"
                /\ pc' = "check_output_file" =>
                     questions' = SubSeq(AllQuestions, 1,
                                         Min(config.questions, Len(AllQuestions)))
         ]_vars

C13_Witness ==
    /\ pc = "aborted"
    /\ Exited(1)
    /\ config # EmptyDict
    /\ "timeout" \notin DOMAIN config
    /\ NothingDone
    /\ result_file.kind = "old"

\* the chat-completion requests started for the question at index q
SentFor(q) == { m \in 1..Len(sent) : sent[m].question = q }

\* the call that gave this record raised
Failed(record) == record.response.kind # "ok"

\* C14: no request is repeated: the first question is sent twice (probe and
\* hot execution), every other question at most once, whether or not its
\* request failed or timed out, so a run with N questions starts at most N + 1
\* requests, and none with no questions.
C14_NoRetries ==
    /\ \A m \in 1..Len(sent) : sent[m].question \in 1..N
    /\ \A q \in 2..N : Cardinality(SentFor(q)) <= 1
    /\ Cardinality(SentFor(1)) <= 2
    /\ (N >= 1 /\ (LoopLeft \/ results # <<>>)) => Cardinality(SentFor(1)) = 2
    /\ Len(sent) <= (IF N >= 1 THEN N + 1 ELSE 0)
    /\ \A n \in 2..Len(results) :
        Failed(results[n]) => Cardinality(SentFor(n)) = 1
    /\ (warmup_result # <<>> /\ Failed(warmup_result[1])) =>
        \A m \in SentFor(1) \ {1} : ~sent[m].is_warmup

C14_Witness ==
    /\ pc = "done"
    /\ Concurrent(2)
    /\ N = MaxQuestions
    /\ Len(sent) = N + 1
    /\ Failed(warmup_result[1])
    /\ Failed(results[1])
    /\ Failed(results[2])
    /\ ~Failed(results[N])

\* C17: a timeout of the hot execution of the first question ends the run
\* like any other recorded timeout: no remaining question is sent and the
\* result list handed to the writer has exactly one entry.
C17_HotTimeoutStopsRun ==
    (results # <<>> /\ CarriesSentinel(results[1])) =>
        /\ Len(sent) = 2
        /\ Len(results) = 1
        /\ LoopLeft \/ pc = "save"
        /\ output_data # <<>> => Len(output_data[1].results) = 1

\* the run goes on after the hot execution timed out
C17_Witness ==
    /\ pc = "done"
    /\ Sequential
    /\ N = MaxQuestions
    /\ TimedOut(results[1])
    /\ CarriesSentinel(results[1])
    /\ ~timeout_found
    /\ Len(sent) = N + 1
    /\ result_file.kind = "artifact"
    /\ Len(result_file.data.results) = N

\* the requests of the chunk being gathered: in flight or returned to gather
InChunk == inflight \cup DOMAIN batch_results

\* C18: in concurrent mode the chunks are strictly separated: while a chunk is
\* gathered nothing of it is in the result list and nothing of a later chunk
\* has been started; the result list changes and new requests start only in
\* steps at which no earlier request is still in flight, and the step that
\* ends a gather appends the whole chunk.
C18_ChunkBoundary ==
    /\ [](pc = "batch_wait" =>
            /\ config.concurrent > 1
            /\ Len(results) = 1 + i
            /\ inflight \cap DOMAIN batch_results = {}
            /\ { sent[m].question : m \in InChunk }
                 = { q \in 2..N : i + 2 <= q /\ q < i + 2 + config.concurrent }
            /\ \A m \in (1..Len(sent)) \ InChunk : sent[m].question <= i + 1)
    /\ [](pc # "batch_wait" => batch_results = EmptyDict)
    /\ [][ /\ results' # results =>
                /\ inflight \cap inflight' = {}
                /\ pc = "batch_wait" =>
                     /\ inflight = {}
                     /\ Len(results') = Len(results) + Cardinality(DOMAIN batch_results)
           /\ (sent' # sent /\ pc = "batch_wait") => inflight = {}
           /\ (pc = "batch_wait" /\ pc' # "batch_wait") => inflight = {}
         ]_vars

C18_Witness ==
    /\ pc = "batch_wait"
    /\ Concurrent(MaxConcurrent)
    /\ N = MaxQuestions
    /\ Cardinality(inflight) = 1
    /\ Cardinality(DOMAIN batch_results) >= 1
    /\ Len(results) = 1
    /\ Len(sent) = 2 + Cardinality(InChunk)

\* the run has a complete configuration with concurrent > 1
ConcurrentMode == "concurrent" \in DOMAIN config /\ config.concurrent > 1

\* C19: in concurrent mode the result list follows the question list whatever
\* the order in which the requests of a chunk complete: every entry is the
\* record of the question at its position, and the step that ends a gather
\* puts the record each task returned at the position of the task's question.
C19_ChunkOrder ==
    /\ [](ConcurrentMode =>
            /\ \A n \in 1..Len(results) : results[n].question = questions[n]
            /\ \A m \in DOMAIN batch_results :
                 batch_results[m].question = questions[sent[m].question])
    /\ [][ (pc = "batch_wait" /\ results' # results) =>
                /\ Len(results') = Len(results) + Cardinality(DOMAIN batch_results)
                /\ SubSeq(results', 1, Len(results)) = results
                /\ \A m \in DOMAIN batch_results :
                     results'[sent[m].question] = batch_results[m]
         ]_vars

\* Scenario B with a fourth question: the chunk of the second and third
\* question is in the list in input order although the third took half the
\* time of the second
C19_Witness ==
    /\ Concurrent(2)
    /\ Len(results) >= 3
    /\ results[2].question = AllQuestions[2]
    /\ results[3].question = AllQuestions[3]
    /\ results[2].response.kind = "ok" /\ results[3].response.kind = "ok"
    /\ results[2].time > results[3].time

\* the phase of the run a position of main() / run_test belongs to; the
\* overwrite prompt opens run_test, before the connection test, and
\* save_results aggregates and writes in one call
Phase(position) ==
    CASE position = "load_config" -> 1
      [] position = "load_questions" -> 2
      [] position \in {"check_output_file", "test_connection"} -> 3
      [] position \in {"warmup", "warmup_wait", "hot_wait"} -> 4
      [] position \in {"batch_wait", "seq_wait"} -> 5
      [] position = "save" -> 6
      [] position = "update_model_registry" -> 8
      [] position = "done" -> 9
      [] position = "aborted" -> 10

\* C20: the run moves through its phases in their order only (a phase may be
\* skipped, and the run may leave to the aborted end): no request is started
\* before the connection test has succeeded; save_results aggregates and
\* writes once, after the last request has returned, and nothing is sent or
\* recorded after it; the registry hook runs only after the artifact has been
\* written.
C20_PhaseOrder ==
    /\ [](sent # <<>> => (model_metadata # EmptyDict /\ Phase(pc) >= 4))
    /\ [](agg_calls > 0 =>
            /\ agg_calls = 1
            /\ Phase(pc) >= 8
            /\ inflight = {} /\ batch_results = EmptyDict)
    /\ []((result_file.kind \in {"artifact", "truncated"} \/ emergency_file # <<>>)
            => (agg_calls = 1 /\ output_data # <<>>))
    /\ [](pc = "update_model_registry" =>
            /\ result_file.kind = "artifact"
            /\ result_file.data = output_data[1]
            /\ emergency_file = <<>>)
    /\ [][ /\ Phase(pc') >= Phase(pc)
           /\ pc' = "done" => pc \in {"save", "update_model_registry"}
           /\ pc \in {"check_output_file", "test_connection"} => sent' = <<>>
           /\ agg_calls' # agg_calls =>
                /\ pc = "save" /\ inflight = {} /\ batch_results = EmptyDict
                /\ Len(results) = (IF N >= 1 THEN Len(sent) - 1 ELSE 0)
           /\ agg_calls > 0 => (sent' = sent /\ results' = results)
         ]_vars

C20_Witness ==
    /\ pc = "update_model_registry"
    /\ Concurrent(2)
    /\ N = MaxQuestions
    /\ Len(results) = N
    /\ Len(sent) = N + 1
    /\ agg_calls = 1
    /\ result_file.kind = "artifact"
    /\ result_file.data.results = results

\* C21: whatever the registry hook's subprocess does (exit 0, exit non-zero,
\* timeout, failure to start), the step of the hook ends the run with
\* success and leaves the written artifact, the result list and the absence
\* of an emergency dump as they were.
C21_HookNeverAffectsRun ==
    /\ [](pc = "update_model_registry" =>
            /\ result_file.kind = "artifact"
            /\ emergency_file = <<>>
            /\ exit_code = <<>>)
    /\ [][ pc = "update_model_registry" =>
                /\ pc' = "done"
                /\ exit_code' = <<0>>
                /\ result_file' = result_file
                /\ emergency_file' = <<>>
                /\ results' = results /\ output_data' = output_data
         ]_vars

C21_Witness ==
    /\ pc = "done"
    /\ Exited(0)
    /\ N >= 1
    /\ result_file.kind = "artifact"
    /\ result_file.data = output_data[1]
    /\ result_file.data.results = results
    /\ emergency_file = <<>>

\* every record a call of send_question has returned, the probe's included
Returns == Recorded \cup { warmup_result[n] : n \in 1..Len(warmup_result) }

\* the evaluator was called for this record: only its call sets the key
Evaluated(record) == record.quality_metrics # NoKey

\* C22: the evaluator is called for a record exactly when the record is that
\* of a measured (not warmup) request whose call returned a non-empty answer
\* that does not start with "ERROR"; when it raises the record keeps quality
\* 0 and a null report, else it carries the evaluator's score; and a record
\* whose evaluation raised does not stop the scheduling of the next question.
C22_EvaluatorCalls ==
    /\ \A record \in Returns :
        /\ Evaluated(record) <=>
             /\ ~record.is_warmup
             /\ record.response.kind = "ok"
             /\ record.response.content # ""
             /\ ~StartsWith(record.response.content, "ERROR")
        /\ Evaluated(record) =>
             LET report == evaluate_answer(record.question, record.answer)
             IN  IF report.raised
                 THEN record.quality = 0 /\ record.quality_metrics = None
                 ELSE /\ record.quality = report.value
                      /\ record.quality_metrics = "QualityMetrics"
        /\ ~Evaluated(record) => record.quality = 0
    /\ (/\ Len(results) >= 1 /\ Len(results) < N /\ ~timeout_found
        /\ results[Len(results)].quality_metrics = None) =>
            /\ pc \in {"batch_wait", "seq_wait"}
            /\ SentFor(Len(results) + 1) # {}

C22_Witness ==
    /\ pc = "done"
    /\ Sequential
    /\ N = MaxQuestions
    /\ Len(results) = N
    /\ warmup_result[1].answer = results[2].answer
    /\ ~Evaluated(warmup_result[1])
    /\ results[2].quality_metrics = None /\ results[2].quality = 0
    /\ results[3].quality_metrics = "QualityMetrics" /\ results[3].quality > 0
    /\ ~Evaluated(results[4])

\* the connection test has succeeded and the run has entered its session block
RunEntered == model_metadata # EmptyDict /\ pc \notin {"test_connection", "warmup"}

\* C23: a run with zero loaded questions sends no request, keeps
\* llm_load_time 0 and an empty result list, aggregates without raising (the
\* aggregate of the empty list is the empty dict), hands the writer an empty
\* result list and ends with success once the artifact or, after a failed
\* write, the emergency dump is written.
C23_ZeroQuestions ==
    (Complete(config) /\ N = 0 /\ Phase(pc) >= 3) =>
        /\ sent = <<>> /\ inflight = {} /\ warmup_result = <<>>
        /\ results = <<>>
        /\ llm_load_time = 0
        /\ pc \notin {"warmup_wait", "hot_wait", "batch_wait", "seq_wait"}
        /\ agg_calls > 0 =>
            /\ output_data # <<>>
            /\ output_data[1].results = <<>>
            /\ output_data[1].aggregate = EmptyDict
        /\ result_file.kind = "artifact" => result_file.data = output_data[1]
        /\ pc = "done" => Exited(0)
        /\ (RunEntered /\ pc = "aborted") =>
            result_file.kind # "artifact" /\ emergency_file = <<>>

C23_Witness ==
    /\ pc = "done"
    /\ Exited(0)
    /\ Complete(config)
    /\ config.questions = 0
    /\ N = 0
    /\ sent = <<>>
    /\ result_file.kind = "artifact"
    /\ result_file.data.results = <<>>
    /\ result_file.data.aggregate = EmptyDict

\* C25: a run that ends at the overwrite prompt or at the connection test has
\* sent no request and has left the result file as it found it; the prompt
\* ends the run only for an existing file without the force flag, and with
\* the force flag (or without an existing file) the run always goes on to the
\* connection test.
C25_AbortLeavesFile ==
    /\ []((pc = "aborted" /\ agg_calls = 0) =>
            /\ sent = <<>> /\ results = <<>>
            /\ result_file \in InitialFiles
            /\ emergency_file = <<>>
            /\ Exited(1))
    /\ [][ /\ pc # "aborted"
           /\ agg_calls' = agg_calls =>
                (result_file' = result_file /\ emergency_file' = emergency_file)
           /\ pc \in {"check_output_file", "test_connection"} =>
                /\ sent = <<>> /\ sent' = <<>>
                /\ pc' \in {"aborted", IF pc = "check_output_file"
                                       THEN "test_connection" ELSE "warmup"}
           /\ (pc = "check_output_file" /\ pc' = "aborted") =>
                (result_file.kind = "old" /\ ~force_overwrite)
           /\ (pc = "check_output_file"
                 /\ (force_overwrite \/ result_file.kind = "absent")) =>
                pc' = "test_connection"
         ]_vars

C25_Witness ==
    /\ pc = "aborted"
    /\ Exited(1)
    /\ Complete(config)
    /\ N = MaxQuestions
    /\ ~force_overwrite
    /\ result_file.kind = "old"
    /\ sent = <<>>
    /\ model_metadata = EmptyDict

\* C27: at every state of a run, at every concurrency level and after a break
\* on timeout too, the result list is a prefix of the question list:
\* results[n] is the record of the recorded (not the probe) request of
\* questions[n] for every n up to its length, so there is no gap, no duplicate
\* and no reordering; and the list only ever grows at its end.
C27_PrefixInvariant ==
    /\ [](/\ Len(results) <= N
          /\ \A n \in 1..Len(results) :
                /\ results[n].question = questions[n]
                /\ ~results[n].is_warmup
                /\ \E m \in 1..Len(sent) :
                      sent[m] = [question |-> n, is_warmup |-> FALSE])
    /\ [][ /\ Len(results') >= Len(results)
           /\ SubSeq(results', 1, Len(results)) = results ]_vars

C27_Witness ==
    /\ pc = "save"
    /\ timeout_found
    /\ Concurrent(2)
    /\ N = MaxQuestions
    /\ Len(results) = 3
    /\ ~CarriesSentinel(results[2])
    /\ CarriesSentinel(results[3])
    /\ results[2].question = AllQuestions[2]
    /\ results[3].question = AllQuestions[3]

\* C28: in concurrent mode a timeout cancels nothing of its own chunk: the
\* loop is left only when every request of the chunk has returned, every
\* request sent has its record in the result list, those of the questions
\* after the timed-out one included, and after a break in chunk k (counted
\* from 1) the list holds exactly 1 + min(N - 1, k * concurrent) entries.
C28_TimeoutCancelsNothing ==
    ConcurrentMode =>
        /\ timeout_found =>
                /\ inflight = {}
                /\ \E n \in 2..Len(results) : CarriesSentinel(results[n])
                /\ \A m \in 1..Len(sent) : sent[m].question <= Len(results)
        /\ \A n \in 2..Len(results) :
                CarriesSentinel(results[n]) =>
                    /\ timeout_found
                    /\ Len(results) =
                          1 + Min(N - 1, (ChunkNo(n) + 1) * config.concurrent)

C28_Witness ==
    /\ timeout_found
    /\ Concurrent(3)
    /\ N = 4
    /\ Len(results) = 4
    /\ CarriesSentinel(results[2])
    /\ results[3].time > 0
    /\ NonTimeoutError(results[4])

\* C29: llm_load_time lies between 0 and the recorded time of the warmup
\* probe.  A probe that failed or timed out has recorded time 0, is not in the
\* result list, gives llm_load_time = 0 and does not stop the run: the hot
\* execution is sent all the same and the loop is left early only for the
\* timeout of a remaining question.  A successful probe followed by a failed
\* hot execution (recorded time 0) gives llm_load_time = the whole probe time,
\* and results[0] is an error entry.
C29_LoadTimeBoundedByProbe ==
    /\ 0 <= llm_load_time
    /\ warmup_result = <<>> => llm_load_time = 0
    /\ warmup_result # <<>> =>
        /\ llm_load_time <= warmup_result[1].time
        /\ \A n \in 1..Len(results) : results[n] # warmup_result[1]
        /\ Failed(warmup_result[1]) =>
            /\ warmup_result[1].time = 0
            /\ llm_load_time = 0
            /\ Len(sent) >= 2 /\ sent[2] = [question |-> 1, is_warmup |-> FALSE]
            /\ pc \notin {"warmup_wait", "hot_wait"} => Len(results) >= 1
            /\ timeout_found =>
                    \E n \in 2..Len(results) : CarriesSentinel(results[n])
            /\ (LoopLeft /\ ~timeout_found) => Len(results) = N
        /\ (results # <<>> /\ ~Failed(warmup_result[1]) /\ Failed(results[1])) =>
            /\ results[1].time = 0
            /\ llm_load_time = warmup_result[1].time
            /\ llm_load_time > 0
            /\ StartsWith(results[1].answer, "ERROR")

C29_Witness ==
    /\ pc = "done"
    /\ N = MaxQuestions
    /\ Len(results) = N
    /\ warmup_result # <<>>
    /\ TimedOut(warmup_result[1])
    /\ ~Failed(results[1])
    /\ results[1].time > 0
    /\ llm_load_time = 0

\* the run is over: main() has returned or called sys.exit
Terminated == pc \in {"done", "aborted"}

\* C30: when every step the run waits for is eventually taken (every network
\* call returns, fails or times out, the overwrite prompt is answered, the
\* registry hook is bounded by its timeout), every run eventually ends, done or
\* aborted, and it never sends more than N + 1 chat-completion requests for N
\* loaded questions (none at all for N = 0).
C30_Termination ==
    /\ <>Terminated
    /\ [](Len(sent) <= IF N >= 1 THEN N + 1 ELSE 0)
    /\ [](Terminated => inflight = {})

C30_Witness ==
    /\ Terminated
    /\ Exited(0)
    /\ N = MaxQuestions
    /\ Len(sent) = N + 1
    /\ Concurrent(MaxConcurrent)
    /\ result_file.kind = "artifact"
    /\ ~timeout_found

-----------------------------------------------------------------------------
(* send_question on its own: one call, for any question and any response     *)

InitSend ==
    /\ pc = "send_question"
    /\ config = EmptyDict
    /\ questions = AllQuestions
    /\ results = <<>>
    /\ llm_load_time = 0
    /\ model_metadata = EmptyDict
    /\ force_overwrite = FALSE
    /\ warmup_result = <<>>
    /\ i = 0
    /\ batch_results = EmptyDict
    /\ \E q \in 1..Len(AllQuestions), is_warmup \in BOOLEAN :
        sent = <<[question |-> q, is_warmup |-> is_warmup]>>
    /\ inflight = {1}
    /\ timeout_found = FALSE
    /\ output_data = <<>>
    /\ result_file = [kind |-> "absent"]
    /\ emergency_file = <<>>
    /\ exit_code = <<>>
    /\ agg_calls = 0

\* the awaited call ends and send_question returns its record
send_question_returns ==
    /\ pc = "send_question"
    /\ \E resp \in Responses \cup MoreResponses \cup EdgeResponses :
        batch_results' =
            (1 :> send_question(questions[sent[1].question], resp, sent[1].is_warmup))
    /\ inflight' = {}
    /\ pc' = "returned"
    /\ UNCHANGED <<config, questions, results, llm_load_time, model_metadata,
                   force_overwrite, warmup_result, i, sent, timeout_found,
                   output_data, result_file, emergency_file, exit_code, agg_calls>>

NextSend == send_question_returns

SpecSend == InitSend /\ [][NextSend]_vars

\* C15 as stated: the record of a request that timed out carries the timeout
\* sentinel, which no record of a non-timeout error carries, its quality is 0
\* and its time is the measured wall-clock duration of the call.
C15_TimeoutRecordKeepsElapsed ==
    \A record \in Recorded :
        /\ TimedOut(record) =>
            /\ CarriesSentinel(record)
            /\ record.quality = 0
            /\ record.time > 0
            /\ record.time = RoundDiv(record.response.elapsed, 10)
        /\ NonTimeoutError(record) => ~CarriesSentinel(record)

\* C15 as amended: the record of a request that timed out carries the timeout
\* sentinel, its quality and token count are 0 and it has no quality report;
\* its time is 0, as in the record of every failed request, whatever the call
\* took.  The record of a non-timeout error carries "ERROR: " and the
\* exception's message, which is the sentinel only for the message
\* "Request timed out.".
C15_TimeoutRecord ==
    \A record \in Recorded :
        /\ TimedOut(record) =>
            /\ CarriesSentinel(record)
            /\ record.quality = 0 /\ record.quality_metrics = NoKey
            /\ record.token = 0
            /\ record.time = 0
        /\ NonTimeoutError(record) =>
            /\ record.answer = "ERROR: " \o record.response.message
            /\ record.quality = 0 /\ record.token = 0 /\ record.time = 0
            /\ CarriesSentinel(record) <=>
                 record.response.message = "Request timed out."

C15_Witness ==
    /\ pc = "returned"
    /\ TimedOut(batch_results[1])
    /\ batch_results[1].response.elapsed > 0
    /\ batch_results[1].time = 0
    /\ CarriesSentinel(batch_results[1])
    /\ ~sent[1].is_warmup

-----------------------------------------------------------------------------
(* sanitize_filename and generate_filename on their own: the file names of   *)
(* successive runs in one working directory                                  *)

\* [a-zA-Z0-9]
Alnum ==
    { "a", "b", "c", "d", "e", "f", "g", "h", "i", "j", "k", "l", "m",
      "n", "o", "p", "q", "r", "s", "t", "u", "v", "w", "x", "y", "z",
      "A", "B", "C", "D", "E", "F", "G", "H", "I", "J", "K", "L", "M",
      "N", "O", "P", "Q", "R", "S", "T", "U", "V", "W", "X", "Y", "Z",
      "0", "1", "2", "3", "4", "5", "6", "7", "8", "9" }

\* the characters a run of which is collapsed, and which are stripped
Separators == { "-", "_" }

\* text.replace(' ', '-') followed by re.sub(r'[^a-zA-Z0-9\-]', '_', text),
\* for one character
ReplaceChar(ch) ==
    IF ch = " " THEN "-"
    ELSE IF ch \in Alnum \cup {"-"} THEN ch
    ELSE "_"

RECURSIVE ReplaceChars(_)
ReplaceChars(text) ==
    IF text = "" THEN ""
    ELSE ReplaceChar(SubSeq(text, 1, 1)) \o ReplaceChars(SubSeq(text, 2, Len(text)))

\* text.lstrip('-_')
RECURSIVE LStrip(_)
LStrip(text) ==
    IF text # "" /\ SubSeq(text, 1, 1) \in Separators
    THEN LStrip(SubSeq(text, 2, Len(text)))
    ELSE text

\* text.rstrip('-_')
RECURSIVE RStrip(_)
RStrip(text) ==
    IF text # "" /\ SubSeq(text, Len(text), Len(text)) \in Separators
    THEN RStrip(SubSeq(text, 1, Len(text) - 1))
    ELSE text

\* re.sub(r'[-_]+', lambda m: m.group(0)[0], text): every run of separators
\* is replaced by its first character
RECURSIVE CollapseRuns(_)
CollapseRuns(text) ==
    IF text = "" THEN ""
    ELSE LET first == SubSeq(text, 1, 1)
             rest == SubSeq(text, 2, Len(text))
         IN  IF first \in Separators
             THEN first \o CollapseRuns(LStrip(rest))
             ELSE first \o CollapseRuns(rest)

sanitize_filename(text) == RStrip(LStrip(CollapseRuns(ReplaceChars(text))))

\* config.get(key, default)
ConfigGet(cfg, key, default) == IF key \in DOMAIN cfg THEN cfg[key] ELSE default

generate_filename(cfg) ==
    "result_" \o sanitize_filename(ConfigGet(cfg, "server_name", "unknown"))
              \o "_" \o sanitize_filename(ConfigGet(cfg, "model", "unknown"))

\* Path('results') / f"{self.output_filename}.json"
OutputPath(output_filename) == "results/" \o output_filename \o ".json"

\* the optional server_name of config.json, NoKey when it is not set
ServerNames == { NoKey, "unknown", "lab 1", "lab-1", "gpu", "gpu_a" }

ModelNames == { "llama3.1:8b", "llama3:1.8b", "m", "a_m" }

\* complete configurations that differ in the server and model they name
NamedConfigs ==
    { IF server = NoKey
      THEN [questions |-> 1, concurrent |-> 1, url |-> "http://host:11434",
            model |-> model, timeout |-> 30]
      ELSE [questions |-> 1, concurrent |-> 1, url |-> "http://host:11434",
            model |-> model, timeout |-> 30, server_name |-> server] :
        server \in ServerNames, model \in ModelNames }

\* output_data is the list of the runs made so far, each with its
\* configuration and the path its save_results writes
InitName ==
    /\ pc = "load_config"
    /\ config = EmptyDict
    /\ questions = <<>>
    /\ results = <<>>
    /\ llm_load_time = 0
    /\ model_metadata = EmptyDict
    /\ force_overwrite = TRUE
    /\ warmup_result = <<>>
    /\ i = 0
    /\ batch_results = EmptyDict
    /\ inflight = {}
    /\ sent = <<>>
    /\ timeout_found = FALSE
    /\ output_data = <<>>
    /\ result_file = [kind |-> "absent"]
    /\ emergency_file = <<>>
    /\ exit_code = <<>>
    /\ agg_calls = 0

\* a run is started: load_config reads the configuration and sets
\* self.output_filename
run_names_file ==
    /\ pc = "load_config"
    /\ Len(output_data) < MaxRuns
    /\ \E cfg \in NamedConfigs :
        /\ config' = cfg
        /\ output_data' = Append(output_data,
                                 [config |-> cfg,
                                  path |-> OutputPath(generate_filename(cfg))])
    /\ UNCHANGED <<pc, questions, results, llm_load_time, model_metadata,
                   force_overwrite, warmup_result, i, batch_results, inflight,
                   sent, timeout_found, result_file, emergency_file, exit_code,
                   agg_calls>>

NextName == run_names_file

SpecName == InitName /\ [][NextName]_vars

\* the server and model a run is made against, as its artifact names them
Combination(cfg) == <<ConfigGet(cfg, "server_name", cfg.url), cfg.model>>

\* C26: two runs write the same path if and only if they are made against the
\* same server+model combination.
C26_OneFilePerCombination ==
    \A a, b \in 1..Len(output_data) :
        output_data[a].path = output_data[b].path
            <=> Combination(output_data[a].config) = Combination(output_data[b].config)

\* two runs against different models of one server write the same path
C26_Witness ==
    /\ Len(output_data) = 2
    /\ ConfigGet(output_data[1].config, "server_name", NoKey) = "lab 1"
    /\ ConfigGet(output_data[2].config, "server_name", NoKey) = "lab 1"
    /\ output_data[1].config.model = "llama3.1:8b"
    /\ output_data[2].config.model = "llama3:1.8b"
    /\ output_data[1].path = "results/result_lab-1_llama3_1_8b.json"
    /\ output_data[2].path = output_data[1].path

-----------------------------------------------------------------------------
(* The aggregator on its own: calculate_aggregates called on an object whose  *)
(* result list is frozen                                                      *)

\* the result lists a run can leave behind, up to MaxAggResults entries
AggResultLists ==
    UNION { { [n \in 1..len |-> send_question(AllQuestions[n], rs[n], FALSE)] :
                rs \in [1..len -> Responses \cup MoreResponses] } :
            len \in 0..MaxAggResults }

InitAgg ==
    /\ pc = "calculate_aggregates"
    /\ config = EmptyDict
    /\ questions = <<>>
    /\ results \in AggResultLists
    /\ llm_load_time \in
          IF results = <<>> THEN {0}
          ELSE { LoadTime(send_question(AllQuestions[1], probe, TRUE).time,
                          results[1].time) : probe \in Responses }
    /\ model_metadata = EmptyDict
    /\ force_overwrite = FALSE
    /\ warmup_result = <<>>
    /\ i = 0
    /\ batch_results = EmptyDict
    /\ inflight = {}
    /\ sent = <<>>
    /\ timeout_found = FALSE
    /\ output_data = <<>>
    /\ result_file = [kind |-> "absent"]
    /\ emergency_file = <<>>
    /\ exit_code = <<>>
    /\ agg_calls = 0

\* mutant: the call drops the failed entries from self.results
aggregator_call_DropsFailed ==
    /\ pc = "calculate_aggregates"
    /\ agg_calls < MaxAggCalls
    /\ agg_calls' = agg_calls + 1
    /\ results' = SelectSeq(results, LAMBDA r : r.time > 0)
    /\ LET aggregate == calculate_aggregates(results', llm_load_time)
       IN  output_data' = <<[raised |-> aggregate.raised, aggregate |-> aggregate.value]>>
    /\ UNCHANGED <<pc, config, questions, llm_load_time, model_metadata,
                   force_overwrite, warmup_result, i, batch_results, inflight,
                   sent, timeout_found, result_file, emergency_file, exit_code>>

\* one call of calculate_aggregates; output_data holds what the call gave
aggregator_call ==
    /\ pc = "calculate_aggregates"
    /\ agg_calls < MaxAggCalls
    /\ agg_calls' = agg_calls + 1
    /\ LET aggregate == calculate_aggregates(results, llm_load_time)
       IN  output_data' = <<[raised |-> aggregate.raised, aggregate |-> aggregate.value]>>
    /\ UNCHANGED <<pc, config, questions, results, llm_load_time, model_metadata,
                   force_overwrite, warmup_result, i, batch_results, inflight,
                   sent, timeout_found, result_file, emergency_file, exit_code>>

NextAgg == aggregator_call

SpecAgg == InitAgg /\ [][NextAgg]_vars

\* the successful results of a list: those whose call returned a response
Successes(res) == SelectSeq(res, LAMBDA r : r.response.kind = "ok")

\* the successful results that carry a token count above 0
Counted(res) == SelectSeq(res, LAMBDA r : r.response.kind = "ok" /\ r.token > 0)

\* one field of every entry of a list
Field(res, field) == [k \in 1..Len(res) |-> res[k][field]]

\* sum, rounded mean, min and max of a list of numbers, 0 for the empty list
Statistics(xs) ==
    IF xs = <<>> THEN [sum |-> 0, avg |-> 0, min |-> 0, max |-> 0]
    ELSE [sum |-> Sum(xs), avg |-> RoundDiv(Sum(xs), Len(xs)),
          min |-> MinOf(xs), max |-> MaxOf(xs)]

\* the four statistics of one column as the aggregate reports them
Reported(aggregate, column) ==
    [sum |-> aggregate[column \o "_sum"], avg |-> aggregate[column \o "_avg"],
     min |-> aggregate[column \o "_min"], max |-> aggregate[column \o "_max"]]

\* Scenario A: three successes of 100, 200 and 150 ms with 10 tokens each
ScenarioA(res) ==
    /\ Len(Successes(res)) = 3 /\ Len(res) = 3
    /\ Field(res, "time") = <<1000, 2000, 1500>>
    /\ Field(res, "token") = <<10, 10, 10>>

\* C16 as stated: the runtime and the token statistics are both taken over
\* the successful results, a success without usage metadata counting as 0
\* tokens, and no failed request contributes to either; Scenario A gives
\* runtime_avg 150.0 and token_avg 10.
C16_SameSetOfSuccesses ==
    (agg_calls > 0 /\ results # <<>>) =>
        LET aggregate == output_data[1].aggregate
        IN  /\ Reported(aggregate, "runtime")
                 = Statistics(Field(Successes(results), "time"))
            /\ Reported(aggregate, "token")
                 = Statistics(Field(Successes(results), "token"))
            /\ ScenarioA(results) =>
                 aggregate["runtime_avg"] = 1500 /\ aggregate["token_avg"] = 10

\* C16 as amended: the runtime statistics are taken over the successful
\* results, the token statistics over the successful results with a token
\* count above 0 (a success without usage metadata is left out of the token
\* mean, min and max), and no failed request contributes to either; Scenario A
\* gives runtime_avg 150.0 and token_avg 10.
C16_RuntimeAndTokenStatistics ==
    (agg_calls > 0 /\ results # <<>>) =>
        LET aggregate == output_data[1].aggregate
        IN  /\ ~output_data[1].raised
            /\ Reported(aggregate, "runtime")
                 = Statistics(Field(Successes(results), "time"))
            /\ Reported(aggregate, "token")
                 = Statistics(Field(Counted(results), "token"))
            /\ \A n \in 1..Len(results) :
                 Failed(results[n]) => results[n].time = 0 /\ results[n].token = 0
            /\ ScenarioA(results) =>
                 aggregate["runtime_avg"] = 1500 /\ aggregate["token_avg"] = 10

C16_Witness ==
    /\ agg_calls > 0
    /\ Len(results) = 3
    /\ results[1].response.kind = "ok" /\ results[1].token = 10
    /\ results[2].response.kind = "ok" /\ results[2].response.usage = <<>>
    /\ TimedOut(results[3])
    /\ output_data[1].aggregate["runtime_avg"] = 1500
    /\ output_data[1].aggregate["token_avg"] = 10
    /\ output_data[1].aggregate["token_min"] = 10

\* the results the evaluator gave a score above 0
Scored(res) == SelectSeq(res, LAMBDA r : r.quality > 0)

====
